---- MODULE Spec2Model ----
(***************************************************************************)
(* A model of the ILI9341 display driver (Adafruit_ILI9341.cpp).           *)
(*                                                                         *)
(* The driver is a leaf over a byte transport (startWrite, endWrite,       *)
(* writeCommand, spiWrite, SPI_WRITE16, spiRead, delay).  The model keeps  *)
(* the driver's cached fields, the transport's transaction state, the      *)
(* sequence of transport calls made by the call in progress, and the part  *)
(* of the controller's register state that the driver's writes determine.  *)
(***************************************************************************)
EXTENDS Integers, Sequences, FiniteSets, TLC

\* ------------------------------------------------------------------ bounds

\* Sampled 16-bit arguments are 0..SmallMax, the same distance below 2^16,
\* and a few fixed values; 8-bit indices are sampled the same way.
SmallMax == 1

\* --------------------------------------------------------------- constants

\* Controller constants of Adafruit_ILI9341.h (the header is not part of the
\* sources at hand; values are those of the ILI9341 command set).
ILI9341_TFTWIDTH == 240
ILI9341_TFTHEIGHT == 320
ILI9341_SWRESET == 1
ILI9341_SLPOUT == 17
ILI9341_INVOFF == 32
ILI9341_INVON == 33
ILI9341_GAMMASET == 38
ILI9341_DISPON == 41
ILI9341_CASET == 42
ILI9341_PASET == 43
ILI9341_RAMWR == 44
ILI9341_MADCTL == 54
ILI9341_VSCRSADD == 55
ILI9341_PIXFMT == 58
ILI9341_FRMCTR1 == 177
ILI9341_DFUNCTR == 182
ILI9341_PWCTR1 == 192
ILI9341_PWCTR2 == 193
ILI9341_VMCTR1 == 197
ILI9341_VMCTR2 == 199
ILI9341_GMCTRP1 == 224
ILI9341_GMCTRN1 == 225

MADCTL_MY == 128
MADCTL_MX == 64
MADCTL_MV == 32
MADCTL_BGR == 8

Byte == 0..255
Word == 0..65535

\* Bitwise operations on naturals, bit by bit.
RECURSIVE BitOr(_, _)
BitOr(a, b) ==
    IF a = 0 THEN b
    ELSE IF b = 0 THEN a
    ELSE (IF a % 2 = 1 \/ b % 2 = 1 THEN 1 ELSE 0) + 2 * BitOr(a \div 2, b \div 2)

RECURSIVE BitAnd(_, _)
BitAnd(a, b) ==
    IF a = 0 \/ b = 0 THEN 0
    ELSE (IF a % 2 = 1 /\ b % 2 = 1 THEN 1 ELSE 0) + 2 * BitAnd(a \div 2, b \div 2)

\* Conversion to uint8_t / uint16_t.
U8(n) == n % 256
U16(n) == n % 65536

\* --------------------------------------------------- transport primitives

\* One call of a transport primitive, as observed at the transport interface.
Ev(op, v) == [op |-> op, v |-> v]

initSPI == Ev("initSPI", 0)
startWrite == Ev("startWrite", 0)
endWrite == Ev("endWrite", 0)
writeCommand(c) == Ev("writeCommand", c)
spiWrite(b) == Ev("spiWrite", U8(b))
SPI_WRITE16(w) == Ev("write16", U16(w))
spiRead(b) == Ev("spiRead", b)
delay(ms) == Ev("delay", ms)

\* The bytes a transport call puts on the bus: a 16-bit write goes out most
\* significant byte first.
WireBytes(e) ==
    CASE e.op = "writeCommand" -> <<e.v>>
      [] e.op = "spiWrite" -> <<e.v>>
      [] e.op = "write16" -> <<e.v \div 256, e.v % 256>>
      [] OTHER -> <<>>

\* Bus transaction state after a transport call.
BusAfter(o, e) ==
    CASE e.op = "startWrite" -> TRUE
      [] e.op = "endWrite" -> FALSE
      [] OTHER -> o

RECURSIVE BusAfterAll(_, _)
BusAfterAll(o, es) ==
    IF es = <<>> THEN o ELSE BusAfterAll(BusAfter(o, Head(es)), Tail(es))

\* The controller as the driver's writes shape it: the command in effect and
\* the memory-access-control register (-1: not written yet).  An argument
\* byte lands in the register when the command in effect is MADCTL.
CtlAfter(c, e) ==
    CASE e.op = "writeCommand" -> [cmd |-> e.v, madctl |-> c.madctl]
      [] e.op \in {"spiWrite", "write16"} ->
            IF c.cmd = ILI9341_MADCTL
            THEN [cmd |-> c.cmd, madctl |-> WireBytes(e)[Len(WireBytes(e))]]
            ELSE c
      [] OTHER -> c

RECURSIVE CtlAfterAll(_, _)
CtlAfterAll(c, es) ==
    IF es = <<>> THEN c ELSE CtlAfterAll(CtlAfter(c, Head(es)), Tail(es))

\* ------------------------------------------------------------ driver code

\* The initialization table.
initcmd ==
    <<239, 3, 3, 128, 2, 207, 3, 0, 193, 48, 237, 4, 100, 3, 18, 129,
      232, 3, 133, 0, 120, 203, 5, 57, 44, 0, 52, 2,
      247, 1, 32, 234, 2, 0, 0, ILI9341_PWCTR1, 1, 35,
      ILI9341_PWCTR2, 1, 16,
      ILI9341_VMCTR1, 2, 62, 40,
      ILI9341_VMCTR2, 1, 134,
      ILI9341_MADCTL, 1, 72,
      ILI9341_VSCRSADD, 1, 0,
      ILI9341_PIXFMT, 1, 85, ILI9341_FRMCTR1, 2, 0, 24,
      ILI9341_DFUNCTR, 3, 8, 130, 39,
      242, 1, 0,
      ILI9341_GAMMASET, 1, 1,
      ILI9341_GMCTRP1, 15, 15, 49, 43, 12, 14, 8,
      78, 241, 55, 7, 16, 3, 14, 9, 0,
      ILI9341_GMCTRN1, 15, 0, 14, 20, 3, 17, 7,
      49, 193, 72, 8, 15, 12, 49, 54, 15, ILI9341_SLPOUT, 128,
      ILI9341_DISPON, 128,
      0>>

\* Variant: pin 0 taken for "no pin".
noResetPin_zeroIsNone(rst) == rst <= 0

\* if (_rst < 0): no hardware reset pin.
noResetPin(rst) == rst < 0

\* Variant: the bus is held from the software reset through the sleep-out.
softReset_heldBus ==
    <<startWrite, writeCommand(ILI9341_SWRESET),
      delay(200),
      writeCommand(ILI9341_SLPOUT), endWrite,
      delay(10)>>

\* The software reset sequence of begin().
softReset ==
    <<startWrite, writeCommand(ILI9341_SWRESET), endWrite,
      delay(200),
      startWrite, writeCommand(ILI9341_SLPOUT), endWrite,
      delay(10)>>

\* Variant: the delay flag is not masked out of the count.
numArgsOf_unmasked(b) == b

\* numArgs = x & 0x7F
numArgsOf(b) == BitAnd(b, 127)

\* if (x & 0x80)
delayFlag(b) == BitAnd(b, 128) # 0

\* *addr: the values a read at table position a (1-based) can yield; a read
\* outside the array is undefined and can yield any byte.
InTable(a) == a \in 1..Len(initcmd)
Deref(a) == IF InTable(a) THEN {initcmd[a]} ELSE Byte

\* rotation = m % 4
rotationOf(m) == m % 4

\* Variant: rotation 3 without the swap flag.
madctlOf_noSwap3(r) ==
    CASE r = 0 -> BitOr(MADCTL_MX, MADCTL_BGR)
      [] r = 1 -> BitOr(MADCTL_MV, MADCTL_BGR)
      [] r = 2 -> BitOr(MADCTL_MY, MADCTL_BGR)
      [] r = 3 -> BitOr(BitOr(MADCTL_MX, MADCTL_MY), MADCTL_BGR)

\* The switch of setRotation: register byte, width and height per rotation.
madctlOf(r) ==
    CASE r = 0 -> BitOr(MADCTL_MX, MADCTL_BGR)
      [] r = 1 -> BitOr(MADCTL_MV, MADCTL_BGR)
      [] r = 2 -> BitOr(MADCTL_MY, MADCTL_BGR)
      [] r = 3 -> BitOr(BitOr(MADCTL_MX, MADCTL_MY), BitOr(MADCTL_MV, MADCTL_BGR))

widthOf(r) == IF r \in {0, 2} THEN ILI9341_TFTWIDTH ELSE ILI9341_TFTHEIGHT

\* Variant: the height is never transposed.
heightOf_native(r) == ILI9341_TFTHEIGHT

heightOf(r) == IF r \in {0, 2} THEN ILI9341_TFTHEIGHT ELSE ILI9341_TFTWIDTH

\* Variant: the two commands exchanged.
invertCmd_swapped(invert) == IF invert THEN ILI9341_INVOFF ELSE ILI9341_INVON

\* invert ? ILI9341_INVON : ILI9341_INVOFF
invertCmd(invert) == IF invert THEN ILI9341_INVON ELSE ILI9341_INVOFF

\* Variant: exclusive end.
windowEnd_exclusive(a, n) == U16(a + n)

\* static_cast<uint16_t>(x1 + w - 1U)
windowEnd(a, n) == U16(a + n - 1)

\* Variant: the index is dropped.
readModeArg_noIndex(index) == 16

\* 0x10 + index
readModeArg(index) == 16 + index

setRotationCalls(m) ==
    <<startWrite, writeCommand(ILI9341_MADCTL), spiWrite(madctlOf(rotationOf(m))), endWrite>>

invertDisplayCalls(invert) ==
    <<startWrite, writeCommand(invertCmd(invert)), endWrite>>

\* Variant: the offset is written as a single byte.
scrollToCalls_byte(y) ==
    <<startWrite, writeCommand(ILI9341_VSCRSADD), spiWrite(y), endWrite>>

scrollToCalls(y) ==
    <<startWrite, writeCommand(ILI9341_VSCRSADD), SPI_WRITE16(y), endWrite>>

setAddrWindowCalls(x1, y1, w, h) ==
    <<writeCommand(ILI9341_CASET), SPI_WRITE16(x1), SPI_WRITE16(windowEnd(x1, w)),
      writeCommand(ILI9341_PASET), SPI_WRITE16(y1), SPI_WRITE16(windowEnd(y1, h)),
      writeCommand(ILI9341_RAMWR)>>

readcommand8Calls(command, index, r) ==
    <<startWrite, writeCommand(217), spiWrite(readModeArg(index)),
      writeCommand(command), spiRead(r), endWrite>>

\* ------------------------------------------------------------------ inputs

RstPins == {-1, 0, 8}
Sample16 == (0..SmallMax) \cup ((65535 - SmallMax)..65535) \cup {10, 20, 300}
SampleRow == {0, 20, 65535}
SampleExtent == {0, 8, 65535}
SampleIndex == (0..SmallMax) \cup ((255 - SmallMax)..255) \cup {239, 240}
SampleCommand == {4, 10, ILI9341_MADCTL}
SampleRead == {0, 156, 255}

\* ------------------------------------------------------------------- state

VARIABLES
    pc,         \* "idle", a position inside begin(), or "done" (call completed)
    _rst,       \* reset pin given to the constructor
    rotation, _width, _height,   \* cached driver fields
    open,       \* a bus transaction is open
    ctl,        \* controller: command in effect, MADCTL register
    call,       \* the call in progress or just completed
    pre,        \* cached fields and bus state when the call was made
    trace,      \* transport calls made by the call so far
    ret,        \* value returned by the call (readcommand8)
    addr, cmd, x, numArgs,   \* locals of begin()
    oob,        \* a read outside initcmd has happened
    configured  \* some begin() or setRotation() has completed

vars == <<pc, _rst, rotation, _width, _height, open, ctl, call, pre, trace, ret,
          addr, cmd, x, numArgs, oob, configured>>

fields == <<rotation, _width, _height>>
locals == <<addr, cmd, x, numArgs>>
history == <<oob, configured>>

NoCall == [op |-> "none", args |-> <<>>]
NoPre == [rotation |-> 0, width |-> 0, height |-> 0, open |-> FALSE]
Snapshot == [rotation |-> rotation, width |-> _width, height |-> _height, open |-> open]

\* Adafruit_SPITFT(ILI9341_TFTWIDTH, ILI9341_TFTHEIGHT, cs, dc, rst)
Init ==
    /\ pc = "idle"
    /\ _rst \in RstPins
    /\ rotation = 0
    /\ _width = ILI9341_TFTWIDTH
    /\ _height = ILI9341_TFTHEIGHT
    /\ open = FALSE
    /\ ctl = [cmd |-> -1, madctl |-> -1]
    /\ call = NoCall
    /\ pre = NoPre
    /\ trace = <<>>
    /\ ret = 0
    /\ addr = 0 /\ cmd = 0 /\ x = 0 /\ numArgs = 0
    /\ oob = FALSE
    /\ configured = FALSE

\* The transport calls es are made, in order.
Emit(es) ==
    /\ trace' = trace \o es
    /\ open' = BusAfterAll(open, es)
    /\ ctl' = CtlAfterAll(ctl, es)

\* A call is entered from the caller.
Enter(op, args) ==
    /\ pc = "idle"
    /\ call' = [op |-> op, args |-> args]
    /\ pre' = Snapshot

\* begin(): initSPI and the optional software reset.
BeginEnter ==
    /\ Enter("begin", <<>>)
    /\ Emit(<<initSPI>> \o (IF noResetPin(_rst) THEN softReset ELSE <<>>))
    /\ pc' = "begin_table"
    /\ UNCHANGED <<_rst, fields, ret, locals, history>>

\* begin(): addr { initcmd }; startWrite();
BeginTable ==
    /\ pc = "begin_table"
    /\ addr' = 1
    /\ Emit(<<startWrite>>)
    /\ pc' = "begin_fetch"
    /\ UNCHANGED <<_rst, fields, call, pre, ret, cmd, x, numArgs, history>>

\* begin(): while ((cmd = *addr++) > 0) { writeCommand(cmd); x = *addr++;
\* numArgs = x & 0x7F; ...
BeginFetch ==
    /\ pc = "begin_fetch"
    /\ ~oob
    /\ \E c \in Deref(addr) :
        /\ cmd' = c
        /\ IF c > 0
           THEN \E l \in Deref(addr + 1) :
                    /\ x' = l
                    /\ numArgs' = numArgsOf(l)
                    /\ addr' = addr + 2
                    /\ Emit(<<writeCommand(c)>>)
                    /\ oob' = (~InTable(addr) \/ ~InTable(addr + 1))
                    /\ pc' = "begin_args"
           ELSE /\ addr' = addr + 1
                /\ oob' = ~InTable(addr)
                /\ pc' = "begin_end"
                /\ UNCHANGED <<x, numArgs, trace, open, ctl>>
    /\ UNCHANGED <<_rst, fields, call, pre, ret, configured>>

\* begin(): while (numArgs--) { spiWrite(*addr++); }  -- one iteration
BeginArg ==
    /\ pc = "begin_args"
    /\ ~oob
    /\ numArgs > 0
    /\ \E b \in Deref(addr) :
        /\ Emit(<<spiWrite(b)>>)
        /\ oob' = ~InTable(addr)
    /\ addr' = addr + 1
    /\ numArgs' = numArgs - 1
    /\ UNCHANGED <<pc, _rst, fields, call, pre, ret, cmd, x, configured>>

\* begin(): the argument loop ends; if (x & 0x80) delay(150);
BeginArgsDone ==
    /\ pc = "begin_args"
    /\ ~oob
    /\ numArgs = 0
    /\ numArgs' = U8(numArgs - 1)
    /\ Emit(IF delayFlag(x) THEN <<delay(150)>> ELSE <<>>)
    /\ pc' = "begin_fetch"
    /\ UNCHANGED <<_rst, fields, call, pre, ret, addr, cmd, x, history>>

\* begin(): endWrite(); _width = ILI9341_TFTWIDTH; _height = ILI9341_TFTHEIGHT;
BeginEnd ==
    /\ pc = "begin_end"
    /\ ~oob
    /\ Emit(<<endWrite>>)
    /\ _width' = ILI9341_TFTWIDTH
    /\ _height' = ILI9341_TFTHEIGHT
    /\ pc' = "done"
    /\ configured' = TRUE
    /\ UNCHANGED <<_rst, rotation, call, pre, ret, locals, oob>>

setRotation ==
    \E m \in Byte :
        /\ Enter("setRotation", <<m>>)
        /\ rotation' = rotationOf(m)
        /\ _width' = widthOf(rotationOf(m))
        /\ _height' = heightOf(rotationOf(m))
        /\ Emit(setRotationCalls(m))
        /\ pc' = "done"
        /\ configured' = TRUE
        /\ UNCHANGED <<_rst, ret, locals, oob>>

invertDisplay ==
    \E invert \in BOOLEAN :
        /\ Enter("invertDisplay", <<invert>>)
        /\ Emit(invertDisplayCalls(invert))
        /\ pc' = "done"
        /\ UNCHANGED <<_rst, fields, ret, locals, history>>

scrollTo ==
    \E y \in Sample16 :
        /\ Enter("scrollTo", <<y>>)
        /\ Emit(scrollToCalls(y))
        /\ pc' = "done"
        /\ UNCHANGED <<_rst, fields, ret, locals, history>>

setAddrWindow ==
    \E x1 \in Sample16, y1 \in SampleRow, w \in Sample16, h \in SampleExtent :
        /\ Enter("setAddrWindow", <<x1, y1, w, h>>)
        /\ Emit(setAddrWindowCalls(x1, y1, w, h))
        /\ pc' = "done"
        /\ UNCHANGED <<_rst, fields, ret, locals, history>>

readcommand8 ==
    \E command \in SampleCommand, index \in SampleIndex, r \in SampleRead :
        /\ Enter("readcommand8", <<command, index>>)
        /\ Emit(readcommand8Calls(command, index, r))
        /\ ret' = r
        /\ pc' = "done"
        /\ UNCHANGED <<_rst, fields, locals, history>>

\* The completed call returns; the caller has seen its transport calls and
\* its result.
Return ==
    /\ pc = "done"
    /\ pc' = "idle"
    /\ call' = NoCall
    /\ pre' = NoPre
    /\ trace' = <<>>
    /\ ret' = 0
    /\ addr' = 0 /\ cmd' = 0 /\ x' = 0 /\ numArgs' = 0
    /\ UNCHANGED <<_rst, fields, open, ctl, history>>

\* The caller opens or closes a bus transaction of its own between calls
\* (setAddrWindow expects one to be open).
CallerStartWrite ==
    /\ pc = "idle"
    /\ ~open
    /\ open' = TRUE
    /\ UNCHANGED <<pc, _rst, fields, ctl, call, pre, trace, ret, locals, history>>

CallerEndWrite ==
    /\ pc = "idle"
    /\ open
    /\ open' = FALSE
    /\ UNCHANGED <<pc, _rst, fields, ctl, call, pre, trace, ret, locals, history>>

Next ==
    \/ BeginEnter
    \/ BeginTable
    \/ BeginFetch
    \/ BeginArg
    \/ BeginArgsDone
    \/ BeginEnd
    \/ setRotation
    \/ invertDisplay
    \/ scrollTo
    \/ setAddrWindow
    \/ readcommand8
    \/ Return
    \/ CallerStartWrite
    \/ CallerEndWrite

Spec == Init /\ [][Next]_vars

TypeOK ==
    /\ pc \in {"idle", "begin_table", "begin_fetch", "begin_args", "begin_end", "done"}
    /\ rotation \in 0..3
    /\ open \in BOOLEAN
    /\ addr \in 0..(Len(initcmd) + 1)

\* ------------------------------------------------------------- properties

Done(op) == pc = "done" /\ call.op = op

Count(es, e) == Cardinality({i \in 1..Len(es) : es[i] = e})
IsPrefix(s, whole) == Len(s) <= Len(whole) /\ s = SubSeq(whole, 1, Len(s))
IsWrite(e) == e.op \in {"writeCommand", "spiWrite", "write16"}

\* Position of the last startWrite of the trace (0: none).
LastStart ==
    LET S == {i \in 1..Len(trace) : trace[i] = startWrite}
    IN IF S = {} THEN 0 ELSE CHOOSE i \in S : \A j \in S : j <= i

\* Position of the first write of command c in the trace (0: none).
FirstCommand(c) ==
    LET S == {i \in 1..Len(trace) : trace[i] = Ev("writeCommand", c)}
    IN IF S = {} THEN 0 ELSE CHOOSE i \in S : \A j \in S : i <= j

\* The events of the given kinds among the first n of the trace, in order.
Keep(n, ops) == SelectSeq(SubSeq(trace, 1, n), LAMBDA e : e.op \in ops)

\* The initialization records as the controller is to receive them:
\* command, arguments, and whether a 150 ms pause follows.
Rec(c, a, d) == [c |-> c, a |-> a, d |-> d]
InitRecords ==
    <<Rec(239, <<3, 128, 2>>, FALSE),
      Rec(207, <<0, 193, 48>>, FALSE),
      Rec(237, <<100, 3, 18, 129>>, FALSE),
      Rec(232, <<133, 0, 120>>, FALSE),
      Rec(203, <<57, 44, 0, 52, 2>>, FALSE),
      Rec(247, <<32>>, FALSE),
      Rec(234, <<0, 0>>, FALSE),
      Rec(ILI9341_PWCTR1, <<35>>, FALSE),
      Rec(ILI9341_PWCTR2, <<16>>, FALSE),
      Rec(ILI9341_VMCTR1, <<62, 40>>, FALSE),
      Rec(ILI9341_VMCTR2, <<134>>, FALSE),
      Rec(ILI9341_MADCTL, <<72>>, FALSE),
      Rec(ILI9341_VSCRSADD, <<0>>, FALSE),
      Rec(ILI9341_PIXFMT, <<85>>, FALSE),
      Rec(ILI9341_FRMCTR1, <<0, 24>>, FALSE),
      Rec(ILI9341_DFUNCTR, <<8, 130, 39>>, FALSE),
      Rec(242, <<0>>, FALSE),
      Rec(ILI9341_GAMMASET, <<1>>, FALSE),
      Rec(ILI9341_GMCTRP1, <<15, 49, 43, 12, 14, 8, 78, 241, 55, 7, 16, 3, 14, 9, 0>>, FALSE),
      Rec(ILI9341_GMCTRN1, <<0, 14, 20, 3, 17, 7, 49, 193, 72, 8, 15, 12, 49, 54, 15>>, FALSE),
      Rec(ILI9341_SLPOUT, <<>>, TRUE),
      Rec(ILI9341_DISPON, <<>>, TRUE)>>

RecCalls(r) ==
    <<Ev("writeCommand", r.c)>>
    \o [i \in 1..Len(r.a) |-> Ev("spiWrite", r.a[i])]
    \o (IF r.d THEN <<Ev("delay", 150)>> ELSE <<>>)

RECURSIVE AllRecCalls(_)
AllRecCalls(rs) == IF rs = <<>> THEN <<>> ELSE RecCalls(Head(rs)) \o AllRecCalls(Tail(rs))

ExpectedTableCalls == AllRecCalls(InitRecords)

\* The transport calls the table interpreter has made so far: those after
\* the startWrite that opens the table transaction, the closing endWrite
\* excluded.
InterpreterCalls ==
    SubSeq(trace, LastStart + 1, IF pc = "done" THEN Len(trace) - 1 ELSE Len(trace))

InInterpreter == call.op = "begin" /\ pc \in {"begin_fetch", "begin_args", "begin_end", "done"}

\* C1: the table interpreter of begin() makes exactly the calls of the 22
\* initialization records in table order -- writeCommand(command), spiWrite
\* of each of the (length & 0x7F) arguments, delay(150) exactly after the
\* records whose length byte has bit 0x80 (SLPOUT and DISPON) -- it stops at
\* the zero in command position that is the last byte of the table, zero
\* argument bytes do not stop it, and no byte outside the table is read.
C1_TableInterpreted ==
    /\ ~oob
    /\ Len(InitRecords) = 22
    /\ {InitRecords[i].c : i \in {j \in 1..Len(InitRecords) : InitRecords[j].d}}
         = {ILI9341_SLPOUT, ILI9341_DISPON}
    /\ InInterpreter =>
        /\ addr \in 1..(Len(initcmd) + 1)
        /\ IsPrefix(InterpreterCalls, ExpectedTableCalls)
        /\ pc \in {"begin_end", "done"} =>
            /\ InterpreterCalls = ExpectedTableCalls
            /\ cmd = 0
            /\ addr = Len(initcmd) + 1
            /\ initcmd[addr - 1] = 0
    /\ Done("begin") => trace[Len(trace)] = endWrite

\* begin() has completed, having passed zero-valued argument bytes.
C1_Witness ==
    /\ Done("begin")
    /\ Len(InterpreterCalls) = Len(ExpectedTableCalls)
    /\ Count(trace, Ev("spiWrite", 0)) >= 7
    /\ Count(trace, Ev("delay", 150)) = 2

\* The four software-reset events.
SoftResetEvents ==
    <<Ev("writeCommand", ILI9341_SWRESET), Ev("delay", 200),
      Ev("writeCommand", ILI9341_SLPOUT), Ev("delay", 10)>>

\* C2: in begin(), without a reset pin (_rst < 0) the commands and delays
\* before the first table command (0xEF) are exactly writeCommand(SWRESET),
\* delay(200), writeCommand(SLPOUT), delay(10), in this order; with a reset
\* pin (_rst >= 0) no command or delay precedes the first table command, and
\* no software reset, delay(200) or delay(10) occurs at all.
C2_SoftResetOrder ==
    Done("begin") =>
        /\ FirstCommand(239) > 0
        /\ Keep(FirstCommand(239) - 1, {"writeCommand", "spiWrite", "write16", "delay"})
             = (IF _rst < 0 THEN SoftResetEvents ELSE <<>>)
        /\ _rst >= 0 =>
            /\ Count(trace, Ev("writeCommand", ILI9341_SWRESET)) = 0
            /\ Count(trace, Ev("delay", 200)) = 0
            /\ Count(trace, Ev("delay", 10)) = 0
            /\ Count(trace, Ev("writeCommand", ILI9341_SLPOUT)) = 1

\* begin() has completed on a driver that has no reset pin.
C2_Witness ==
    /\ Done("begin")
    /\ _rst < 0
    /\ Count(trace, Ev("delay", 200)) = 1

\* Every write of the trace lies between a startWrite of the trace and the
\* endWrite that follows it.
WritesInsideTransactions ==
    \A i \in 1..Len(trace) :
        IsWrite(trace[i]) =>
            \E s \in 1..(i - 1) :
                /\ trace[s] = startWrite
                /\ \A k \in (s + 1)..(i - 1) : trace[k] # endWrite

\* C3 as stated: begin() calls startWrite once and endWrite once, and every
\* write lies between the two.
C3_SingleTransaction ==
    Done("begin") =>
        /\ Count(trace, startWrite) = 1
        /\ Count(trace, endWrite) = 1
        /\ WritesInsideTransactions

\* C3 amended: every write of begin() lies inside a bus transaction, and all
\* table records go out in one transaction that is the last of the call;
\* begin() makes one transaction when a reset pin is configured and three
\* (software reset, sleep-out, table) when none is.
C3_TransactionsOfBegin ==
    Done("begin") =>
        /\ WritesInsideTransactions
        /\ trace[LastStart + 1] = Ev("writeCommand", 239)
        /\ trace[Len(trace)] = endWrite
        /\ \A k \in (LastStart + 1)..(Len(trace) - 1) : trace[k] # endWrite
        /\ Len(trace) - 1 - LastStart = Len(ExpectedTableCalls)
        /\ Count(trace, startWrite) = (IF _rst < 0 THEN 3 ELSE 1)
        /\ Count(trace, endWrite) = (IF _rst < 0 THEN 3 ELSE 1)
        /\ ~open

\* begin() has completed with three transactions.
C3_Witness ==
    /\ Done("begin")
    /\ _rst < 0
    /\ Count(trace, endWrite) = 3

\* The register byte per rotation, as documented.
RotationByte(r) ==
    CASE r = 0 -> 72
      [] r = 1 -> 40
      [] r = 2 -> 136
      [] r = 3 -> 232

Native == _width = ILI9341_TFTWIDTH /\ _height = ILI9341_TFTHEIGHT
Transposed == _width = ILI9341_TFTHEIGHT /\ _height = ILI9341_TFTWIDTH

\* C4: setRotation(m), for every 8-bit m, stores rotation = m mod 4, the
\* native dimensions for 0 and 2 and the transposed ones for 1 and 3, and
\* emits exactly startWrite, writeCommand(MADCTL), spiWrite(b), endWrite with
\* b = 0x48, 0x28, 0x88, 0xE8 for rotation 0, 1, 2, 3; state and trace depend
\* on m only through m mod 4.
C4_SetRotation ==
    Done("setRotation") =>
        LET m == call.args[1]
            r == m % 4
        IN /\ rotation = r
           /\ (r \in {0, 2} => Native)
           /\ (r \in {1, 3} => Transposed)
           /\ trace = <<Ev("startWrite", 0), Ev("writeCommand", ILI9341_MADCTL),
                        Ev("spiWrite", RotationByte(r)), Ev("endWrite", 0)>>
           /\ ctl.madctl = RotationByte(r)
           /\ ~open

\* setRotation(255) has completed.
C4_Witness ==
    /\ Done("setRotation")
    /\ call.args[1] = 255
    /\ rotation = 3
    /\ pre.rotation = 1

\* C5: setAddrWindow(x1, y1, w, h) emits exactly writeCommand(CASET),
\* write16(x1), write16(x2), writeCommand(PASET), write16(y1), write16(y2),
\* writeCommand(RAMWR) with x2 = (x1 + w - 1) mod 2^16 and
\* y2 = (y1 + h - 1) mod 2^16; it opens and closes no transaction and
\* changes no cached field.
C5_SetAddrWindow ==
    Done("setAddrWindow") =>
        LET x1 == call.args[1]
            y1 == call.args[2]
            w == call.args[3]
            h == call.args[4]
            x2 == IF x1 + w = 0 THEN 65535 ELSE (x1 + w - 1) % 65536
            y2 == IF y1 + h = 0 THEN 65535 ELSE (y1 + h - 1) % 65536
        IN /\ trace = <<Ev("writeCommand", ILI9341_CASET), Ev("write16", x1), Ev("write16", x2),
                        Ev("writeCommand", ILI9341_PASET), Ev("write16", y1), Ev("write16", y2),
                        Ev("writeCommand", ILI9341_RAMWR)>>
           /\ open = pre.open
           /\ Snapshot = pre

\* setAddrWindow has completed inside the caller's transaction with a window
\* end that wraps.
C5_Witness ==
    /\ Done("setAddrWindow")
    /\ pre.open
    /\ call.args[1] = 0 /\ call.args[3] = 0
    /\ call.args[2] = 65535 /\ call.args[4] = 8
    /\ trace[3] = Ev("write16", 65535)
    /\ trace[6] = Ev("write16", 6)

RECURSIVE Wire(_)
Wire(es) == IF es = <<>> THEN <<>> ELSE WireBytes(Head(es)) \o Wire(Tail(es))

\* C6: scrollTo(y), for every 16-bit y, emits exactly startWrite,
\* writeCommand(VSCRSADD), a 16-bit write of y, endWrite; on the bus the
\* command byte is followed by y div 256 and then y mod 256 (300: 0x01, 0x2C).
C6_ScrollTo ==
    Done("scrollTo") =>
        LET y == call.args[1]
        IN /\ trace = <<Ev("startWrite", 0), Ev("writeCommand", ILI9341_VSCRSADD),
                        Ev("write16", y), Ev("endWrite", 0)>>
           /\ Wire(trace) = <<ILI9341_VSCRSADD, y \div 256, y % 256>>
           /\ (y = 300 => Wire(trace) = <<ILI9341_VSCRSADD, 1, 44>>)

\* scrollTo(300) has completed.
C6_Witness ==
    /\ Done("scrollTo")
    /\ call.args[1] = 300
    /\ Len(Wire(trace)) = 3

\* C7: invertDisplay(flag) emits exactly startWrite, writeCommand(INVON) for
\* true or writeCommand(INVOFF) for false, endWrite: no argument byte is
\* written and none is read.
C7_InvertDisplay ==
    Done("invertDisplay") =>
        /\ trace = <<Ev("startWrite", 0),
                     Ev("writeCommand", IF call.args[1] THEN ILI9341_INVON ELSE ILI9341_INVOFF),
                     Ev("endWrite", 0)>>
        /\ Snapshot = [pre EXCEPT !.open = FALSE]

\* invertDisplay(true) has completed.
C7_Witness ==
    /\ Done("invertDisplay")
    /\ call.args[1] = TRUE
    /\ ctl.cmd = ILI9341_INVON

\* C8: readcommand8(command, index) does, inside one startWrite/endWrite
\* pair, writeCommand(0xD9), spiWrite((0x10 + index) mod 256),
\* writeCommand(command) and one spiRead, returns the byte read, and changes
\* no cached field.
C8_Readcommand8 ==
    Done("readcommand8") =>
        LET command == call.args[1]
            index == call.args[2]
        IN /\ trace = <<Ev("startWrite", 0), Ev("writeCommand", 217),
                        Ev("spiWrite", (16 + index) % 256),
                        Ev("writeCommand", command), Ev("spiRead", ret), Ev("endWrite", 0)>>
           /\ Snapshot = [pre EXCEPT !.open = FALSE]

\* readcommand8 has completed with an index that wraps the mode byte and a
\* non-zero byte read back.
C8_Witness ==
    /\ Done("readcommand8")
    /\ call.args[2] = 255
    /\ trace[3] = Ev("spiWrite", 15)
    /\ ret = 156

\* C9: between calls the cached dimensions agree with the cached rotation:
\* native for rotation 0 and 2, transposed for 1 and 3.
C9_DimensionsFollowRotation ==
    pc \in {"idle", "done"} =>
        /\ (rotation \in {0, 2} => Native)
        /\ (rotation \in {1, 3} => Transposed)

\* C10: once a begin() or setRotation() has completed, between calls the
\* swap flag (MV, 0x20) of the byte last written to the MADCTL register is
\* set exactly when the cached dimensions are the transposed ones and clear
\* exactly when they are the native ones.
C10_DimensionsFollowRegister ==
    (pc \in {"idle", "done"} /\ configured) =>
        /\ ctl.madctl \in Byte
        /\ (BitAnd(ctl.madctl, 32) # 0) <=> Transposed
        /\ (BitAnd(ctl.madctl, 32) = 0) <=> Native

\* A register read of MADCTL has completed on a rotated display, leaving
\* MADCTL the command in effect.
C10_Witness ==
    /\ Done("readcommand8")
    /\ configured
    /\ ctl.cmd = ILI9341_MADCTL
    /\ ctl.madctl = 40
    /\ Transposed

====
